---------------------------- MODULE Spec2Model ----------------------------
(***************************************************************************)
(* Model of dashboard.py: the module-level pipeline (read the three CSV    *)
(* sources, melt the two wide ones, coerce the dates of the long one,      *)
(* summarise per country, left-merge into country_data) and the Dash       *)
(* callback update_visualizations that answers (country, metric) queries.  *)
(*                                                                         *)
(* A DataFrame is [cols |-> sequence of column names,                      *)
(*                 rows |-> sequence of functions column name -> value].   *)
(* Dates are day numbers (1 = 2020-01-22); NaT and NaN are the missing     *)
(* timestamp and the missing number.  The Lat and Long identity columns    *)
(* are carried by the code but read by no statement; they are left out.    *)
(*                                                                         *)
(* Lines 51 and 163 of the file read `name` and "main"; the model gives    *)
(* line 51 both outcomes: NameError (the text as it stands) and a created  *)
(* app (`name` read as the module's dunder name).                          *)
(***************************************************************************)
EXTENDS Integers, Sequences, FiniteSets, TLC

VARIABLES csv_confirmed, csv_deaths, csv_vaccinations,
          confirmed_data, deaths_data, vaccination_data,
          confirmed_summary, deaths_summary, vaccination_summary,
          country_data, pc, error, response

vars == <<csv_confirmed, csv_deaths, csv_vaccinations,
          confirmed_data, deaths_data, vaccination_data,
          confirmed_summary, deaths_summary, vaccination_summary,
          country_data, pc, error, response>>

-----------------------------------------------------------------------------
(* Bounds and values *)

\* Data rows held by the three sources together.
MaxRows == 2

\* float NaN: a missing number (values are >= 0).
NaN == -1
\* pandas NaT: a missing timestamp (day numbers are >= 1).
NaT == 0

Range(s) == {s[i] : i \in DOMAIN s}

EmptyFrame == [cols |-> <<>>, rows |-> <<>>]

-----------------------------------------------------------------------------
(* The remote files *)

\* Date labels of the wide files' columns, as the provider orders them; the
\* third header holds a label pd.to_datetime cannot parse.
WideHeaders == {<<"1/22/20", "1/23/20">>, <<"1/23/20", "1/22/20">>,
                <<"1/22/20", "n/a">>}

\* (Province/State, Country/Region) of a wide row; "nan" is an empty province.
Identities == {<<"nan", "India">>, <<"Hubei", "China">>, <<"Beijing", "China">>}

\* The cells of one wide row, one per date column.
WideValues == {<<5, 7>>, <<7, 5>>}

WideRow(header, id, vals) ==
    ("Province/State" :> id[1]) @@ ("Country/Region" :> id[2]) @@
    [c \in Range(header) |-> vals[CHOOSE j \in DOMAIN header : header[j] = c]]

\* The wide files with n rows: pd.read_csv's frame of such a file.  A file
\* holds an identity at most once.
WideFiles(n) ==
    { [cols |-> <<"Province/State", "Country/Region">> \o h,
       rows |-> [i \in 1..n |-> WideRow(h, r[i][1], r[i][2])]] :
         <<h, r>> \in WideHeaders \X
            {q \in [1..n -> Identities \X WideValues] :
               \A i, j \in 1..n : i # j => q[i][1] # q[j][1]} }

LongRows == [location : {"India", "World"},
             date : {"2020-01-22", "2020-01-23", "n/a"},
             total_vaccinations : {7, NaN}]

\* The long (vaccination) files with n rows, in provider order.
LongFiles(n) ==
    { [cols |-> <<"location", "date", "total_vaccinations">>, rows |-> r] :
         r \in [1..n -> LongRows] }

-----------------------------------------------------------------------------
(* pandas operations *)

\* pd.to_datetime of one label: its day number, NaT when it does not parse.
ParseDate(s) ==
    CASE s \in {"1/22/20", "2020-01-22"} -> 1
      [] s \in {"1/23/20", "2020-01-23"} -> 2
      [] OTHER -> NaT

\* DataFrame.melt: one row per (value column, source row), the value columns
\* in column order and, within one, the rows in row order.
Melt(df, id_vars, var_name, value_name) ==
    LET value_vars == SelectSeq(df.cols, LAMBDA c : c \notin Range(id_vars))
        n == Len(df.rows)
        MeltedRow(k) ==
            LET j == ((k - 1) \div n) + 1
                i == ((k - 1) % n) + 1
            IN [c \in Range(id_vars) \cup {var_name, value_name} |->
                  IF c = var_name THEN value_vars[j]
                  ELSE IF c = value_name THEN df.rows[i][value_vars[j]]
                  ELSE df.rows[i][c]]
    IN [cols |-> id_vars \o <<var_name, value_name>>,
        rows |-> [k \in 1..(n * Len(value_vars)) |-> MeltedRow(k)]]

\* pd.to_datetime(df[src]) raises unless every label parses (errors="raise").
Parses(df, src) == \A i \in DOMAIN df.rows : ParseDate(df.rows[i][src]) # NaT

\* The conversion followed by a dropna on the date: rows whose label does not
\* parse are removed.
ToDatetimeDropBad(df, src, dst) ==
    LET kept == SelectSeq(df.rows, LAMBDA r : ParseDate(r[src]) # NaT)
    IN [cols |-> IF dst \in Range(df.cols) THEN df.cols ELSE Append(df.cols, dst),
        rows |-> [i \in DOMAIN kept |->
                    [c \in DOMAIN kept[i] \cup {dst} |->
                       IF c = dst THEN ParseDate(kept[i][src]) ELSE kept[i][c]]]]

\* df[dst] = pd.to_datetime(df[src], errors="coerce"): every row is kept, and
\* a label that does not parse becomes NaT.  With errors="raise" and every
\* label parsing, the result is the same.
ToDatetime(df, src, dst) ==
    [cols |-> IF dst \in Range(df.cols) THEN df.cols ELSE Append(df.cols, dst),
     rows |-> [i \in DOMAIN df.rows |->
                 [c \in DOMAIN df.rows[i] \cup {dst} |->
                    IF c = dst THEN ParseDate(df.rows[i][src])
                    ELSE df.rows[i][c]]]]

\* df[[...]]: column projection.
Project(df, cols) ==
    [cols |-> cols,
     rows |-> [i \in DOMAIN df.rows |-> [c \in Range(cols) |-> df.rows[i][c]]]]

\* df.rename(columns={old: new}).
Rename(df, old, new) ==
    [cols |-> [j \in DOMAIN df.cols |->
                 IF df.cols[j] = old THEN new ELSE df.cols[j]],
     rows |-> [i \in DOMAIN df.rows |->
                 [c \in (DOMAIN df.rows[i] \ {old}) \cup {new} |->
                    IF c = new THEN df.rows[i][old] ELSE df.rows[i][c]]]]

\* Python's string order on the country names of the model.
SortedCountryNames == <<"China", "India", "World">>

\* Series.min of one group.
GroupMin(vals) ==
    LET nums == {v \in Range(vals) : v # NaN}
    IN IF nums = {} THEN NaN ELSE CHOOSE m \in nums : \A x \in nums : m <= x

\* Series.max of one group: the largest number, NaN when all are missing.
GroupMax(vals) ==
    LET nums == {v \in Range(vals) : v # NaN}
    IN IF nums = {} THEN NaN ELSE CHOOSE m \in nums : \A x \in nums : m >= x

\* df.groupby(key)[col].max().reset_index(): one row per key, keys sorted.
GroupByMax(df, key, col) ==
    LET keys == {r[key] : r \in Range(df.rows)}
        sorted == SelectSeq(SortedCountryNames, LAMBDA k : k \in keys)
        Group(k) == SelectSeq(df.rows, LAMBDA r : r[key] = k)
    IN [cols |-> <<key, col>>,
        rows |-> [i \in DOMAIN sorted |->
                    (key :> sorted[i]) @@
                    (col :> GroupMax([j \in DOMAIN Group(sorted[i]) |->
                                        Group(sorted[i])[j][col]]))]]

RECURSIVE Concat(_)
Concat(ss) == IF ss = <<>> THEN <<>> ELSE Head(ss) \o Concat(Tail(ss))

OtherCols(right, on) == SelectSeq(right.cols, LAMBDA c : c # on)

\* left.merge(right, on=on, how="inner"): rows without a match are dropped.
MergeInner(left, right, on) ==
    LET other == OtherCols(right, on)
        Matches(l) == SelectSeq(right.rows, LAMBDA r : r[on] = l[on])
        Joined(l) == [j \in DOMAIN Matches(l) |->
                        l @@ [c \in Range(other) |-> Matches(l)[j][c]]]
    IN [cols |-> left.cols \o other,
        rows |-> Concat([i \in DOMAIN left.rows |-> Joined(left.rows[i])])]

\* left.merge(right, on=on, how="left"): the left rows in order, each once per
\* matching right row, and once with NaN in the right columns without one.
MergeLeft(left, right, on) ==
    LET other == OtherCols(right, on)
        Matches(l) == SelectSeq(right.rows, LAMBDA r : r[on] = l[on])
        Joined(l) ==
            IF Matches(l) = <<>>
            THEN << l @@ [c \in Range(other) |-> NaN] >>
            ELSE [j \in DOMAIN Matches(l) |->
                    l @@ [c \in Range(other) |-> Matches(l)[j][c]]]
    IN [cols |-> left.cols \o other,
        rows |-> Concat([i \in DOMAIN left.rows |-> Joined(left.rows[i])])]

\* df[col].fillna(v, inplace=True).
FillNa(df, col, v) ==
    [cols |-> df.cols,
     rows |-> [i \in DOMAIN df.rows |->
                 [c \in DOMAIN df.rows[i] |->
                    IF c = col /\ df.rows[i][c] = NaN THEN v
                    ELSE df.rows[i][c]]]]

-----------------------------------------------------------------------------
(* The module-level pipeline, lines 14-51 and 163-164 *)

Init ==
    /\ \E nc \in 0..MaxRows, nd \in 0..MaxRows, nv \in 0..MaxRows :
          /\ nc + nd + nv <= MaxRows
          /\ csv_confirmed \in WideFiles(nc)
          /\ csv_deaths \in WideFiles(nd)
          /\ csv_vaccinations \in LongFiles(nv)
    /\ confirmed_data = EmptyFrame
    /\ deaths_data = EmptyFrame
    /\ vaccination_data = EmptyFrame
    /\ confirmed_summary = EmptyFrame
    /\ deaths_summary = EmptyFrame
    /\ vaccination_summary = EmptyFrame
    /\ country_data = EmptyFrame
    /\ pc = "load_confirmed"
    /\ error = 0
    /\ response = [status |-> "none"]

\* An uncaught exception at `line` ends the interpreter.
Raise(line) == pc' = "failed" /\ error' = line

IdVars == <<"Province/State", "Country/Region">>

\* line 14
LoadConfirmed ==
    /\ pc = "load_confirmed"
    /\ \/ /\ confirmed_data' = csv_confirmed
          /\ pc' = "load_deaths"
          /\ UNCHANGED error
       \/ /\ Raise(14)
          /\ UNCHANGED confirmed_data
    /\ UNCHANGED <<csv_confirmed, csv_deaths, csv_vaccinations, deaths_data,
                   vaccination_data, confirmed_summary, deaths_summary,
                   vaccination_summary, country_data, response>>

\* line 15
LoadDeaths ==
    /\ pc = "load_deaths"
    /\ \/ /\ deaths_data' = csv_deaths
          /\ pc' = "load_vaccinations"
          /\ UNCHANGED error
       \/ /\ Raise(15)
          /\ UNCHANGED deaths_data
    /\ UNCHANGED <<csv_confirmed, csv_deaths, csv_vaccinations, confirmed_data,
                   vaccination_data, confirmed_summary, deaths_summary,
                   vaccination_summary, country_data, response>>

\* line 16
LoadVaccinations ==
    /\ pc = "load_vaccinations"
    /\ \/ /\ vaccination_data' = csv_vaccinations
          /\ pc' = "melt_confirmed"
          /\ UNCHANGED error
       \/ /\ Raise(16)
          /\ UNCHANGED vaccination_data
    /\ UNCHANGED <<csv_confirmed, csv_deaths, csv_vaccinations, confirmed_data,
                   deaths_data, confirmed_summary, deaths_summary,
                   vaccination_summary, country_data, response>>

\* lines 19-23
MeltConfirmed ==
    /\ pc = "melt_confirmed"
    /\ LET melted == Melt(confirmed_data, IdVars, "Date", "Confirmed Cases")
       IN IF Parses(melted, "Date")
          THEN /\ confirmed_data' = ToDatetime(melted, "Date", "Date")
               /\ pc' = "melt_deaths"
               /\ UNCHANGED error
          ELSE /\ confirmed_data' = melted
               /\ Raise(23)
    /\ UNCHANGED <<csv_confirmed, csv_deaths, csv_vaccinations, deaths_data,
                   vaccination_data, confirmed_summary, deaths_summary,
                   vaccination_summary, country_data, response>>

\* lines 25-29
MeltDeaths ==
    /\ pc = "melt_deaths"
    /\ LET melted == Melt(deaths_data, IdVars, "Date", "Deaths")
       IN IF Parses(melted, "Date")
          THEN /\ deaths_data' = ToDatetime(melted, "Date", "Date")
               /\ pc' = "vaccination_processing"
               /\ UNCHANGED error
          ELSE /\ deaths_data' = melted
               /\ Raise(29)
    /\ UNCHANGED <<csv_confirmed, csv_deaths, csv_vaccinations, confirmed_data,
                   vaccination_data, confirmed_summary, deaths_summary,
                   vaccination_summary, country_data, response>>

\* lines 32-34
VaccinationProcessing ==
    /\ pc = "vaccination_processing"
    /\ vaccination_data' =
          Rename(Project(ToDatetime(vaccination_data, "date", "Date"),
                         <<"location", "Date", "total_vaccinations">>),
                 "location", "Country")
    /\ pc' = "summaries"
    /\ UNCHANGED <<csv_confirmed, csv_deaths, csv_vaccinations, confirmed_data,
                   deaths_data, confirmed_summary, deaths_summary,
                   vaccination_summary, country_data, error, response>>

\* lines 37-43
Summaries ==
    /\ pc = "summaries"
    /\ confirmed_summary' =
          Rename(GroupByMax(confirmed_data, "Country/Region", "Confirmed Cases"),
                 "Country/Region", "Country")
    /\ deaths_summary' =
          Rename(GroupByMax(deaths_data, "Country/Region", "Deaths"),
                 "Country/Region", "Country")
    /\ vaccination_summary' =
          GroupByMax(vaccination_data, "Country", "total_vaccinations")
    /\ pc' = "merge"
    /\ UNCHANGED <<csv_confirmed, csv_deaths, csv_vaccinations, confirmed_data,
                   deaths_data, vaccination_data, country_data, error, response>>

\* lines 46-48
MergeSummaries ==
    /\ pc = "merge"
    /\ country_data' =
          FillNa(MergeLeft(MergeLeft(confirmed_summary, deaths_summary, "Country"),
                           vaccination_summary, "Country"),
                 "total_vaccinations", 0)
    /\ pc' = "app"
    /\ UNCHANGED <<csv_confirmed, csv_deaths, csv_vaccinations, confirmed_data,
                   deaths_data, vaccination_data, confirmed_summary,
                   deaths_summary, vaccination_summary, error, response>>

\* lines 51-121: dash.Dash(name), the layout, the callback's registration.
AppInit ==
    /\ pc = "app"
    /\ \/ pc' = "run_server" /\ UNCHANGED error
       \/ Raise(51)
    /\ UNCHANGED <<csv_confirmed, csv_deaths, csv_vaccinations, confirmed_data,
                   deaths_data, vaccination_data, confirmed_summary,
                   deaths_summary, vaccination_summary, country_data, response>>

\* lines 163-164
RunServer ==
    /\ pc = "run_server"
    /\ pc' = "serving"
    /\ UNCHANGED <<csv_confirmed, csv_deaths, csv_vaccinations, confirmed_data,
                   deaths_data, vaccination_data, confirmed_summary,
                   deaths_summary, vaccination_summary, country_data, error,
                   response>>

-----------------------------------------------------------------------------
(* The callback, lines 118-160 *)

HasCol(df, c) == c \in Range(df.cols)

\* df[df[col] == v]
Filter(df, col, v) ==
    [cols |-> df.cols, rows |-> SelectSeq(df.rows, LAMBDA r : r[col] = v)]

\* The values the data-dropdown offers (lines 89-93).
RecognizedMetrics == {"Confirmed Cases", "Deaths", "total_vaccinations"}

\* What a caller may send: "Country" and "recovered" are strings the dropdown
\* does not offer, "" is an empty selection.
QueryCountries == {"China", "India", "World"}
QueryMetrics == RecognizedMetrics \cup {"Country", "recovered"}
Requests == (QueryCountries \X QueryMetrics) \cup {<<"", "Deaths">>, <<"India", "">>}

\* The callback raised `exc`: no figure is returned.
Raised(sc, sd, exc) ==
    [country |-> sc, metric |-> sd, status |-> exc, has_map |-> FALSE,
     locations |-> <<>>, z |-> <<>>, series |-> <<>>]

\* The callback returned (map figure, time-series figure).
Returned(sc, sd, has_map, locations, z, series) ==
    [country |-> sc, metric |-> sd, status |-> "ok", has_map |-> has_map,
     locations |-> locations, z |-> z, series |-> series]

\* The selection with its last branch reading the confirmed table.
TsTableElseConfirmed(selected_data) ==
    IF selected_data = "total_vaccinations"
    THEN [df |-> vaccination_data, key |-> "Country"]
    ELSE [df |-> confirmed_data, key |-> "Country/Region"]

\* lines 141-146: the table the series is read from, and its country column.
TsTable(selected_data) ==
    IF selected_data = "total_vaccinations"
    THEN [df |-> vaccination_data, key |-> "Country"]
    ELSE IF selected_data = "Confirmed Cases"
    THEN [df |-> confirmed_data, key |-> "Country/Region"]
    ELSE [df |-> deaths_data, key |-> "Country/Region"]

\* lines 122-160
update_visualizations(selected_country, selected_data) ==
    IF selected_country = "" \/ selected_data = ""
    THEN Returned(selected_country, selected_data, FALSE, <<>>, <<>>, <<>>)
    ELSE IF ~HasCol(country_data, "Country") \/ ~HasCol(country_data, selected_data)
    THEN Raised(selected_country, selected_data, "KeyError")
    ELSE
      LET locations == [i \in DOMAIN country_data.rows |->
                          country_data.rows[i]["Country"]]
          z == [i \in DOMAIN country_data.rows |->
                  country_data.rows[i][selected_data]]
          t == TsTable(selected_data)
      IN IF ~HasCol(t.df, t.key)
         THEN Raised(selected_country, selected_data, "KeyError")
         ELSE
           LET ts_data == Filter(t.df, t.key, selected_country)
           IN IF DOMAIN ts_data.rows = {}
              THEN Returned(selected_country, selected_data, TRUE, locations, z, <<>>)
              ELSE IF ~HasCol(ts_data, "Date") \/ ~HasCol(ts_data, selected_data)
              THEN Raised(selected_country, selected_data, "ValueError")
              ELSE Returned(selected_country, selected_data, TRUE, locations, z,
                            [i \in DOMAIN ts_data.rows |->
                               <<ts_data.rows[i]["Date"],
                                 ts_data.rows[i][selected_data]>>])

\* Requests reaching the callback while the module is still being executed.
CanServeEarly == pc # "failed"

\* Requests reach the callback once app.run_server is running.
CanServe == pc = "serving"

Callback ==
    /\ CanServe
    /\ \E req \in Requests : response' = update_visualizations(req[1], req[2])
    /\ UNCHANGED <<csv_confirmed, csv_deaths, csv_vaccinations, confirmed_data,
                   deaths_data, vaccination_data, confirmed_summary,
                   deaths_summary, vaccination_summary, country_data, pc, error>>

Next ==
    \/ LoadConfirmed
    \/ LoadDeaths
    \/ LoadVaccinations
    \/ MeltConfirmed
    \/ MeltDeaths
    \/ VaccinationProcessing
    \/ Summaries
    \/ MergeSummaries
    \/ AppInit
    \/ RunServer
    \/ Callback

Spec == Init /\ [][Next]_vars

-----------------------------------------------------------------------------
(* Properties *)

\* The countries of the confirmed source: the universe.
Universe == {csv_confirmed.rows[i]["Country/Region"] : i \in DOMAIN csv_confirmed.rows}

\* The source file behind a recognized metric, and its country column.
SourceOf(metric) ==
    IF metric = "total_vaccinations" THEN [csv |-> csv_vaccinations, key |-> "location"]
    ELSE IF metric = "Confirmed Cases" THEN [csv |-> csv_confirmed, key |-> "Country/Region"]
    ELSE [csv |-> csv_deaths, key |-> "Country/Region"]

SourceRows(metric, country) ==
    {i \in DOMAIN SourceOf(metric).csv.rows :
        SourceOf(metric).csv.rows[i][SourceOf(metric).key] = country}

RECURSIVE SumCells(_, _)
SumCells(csv, cells) ==
    IF cells = {} THEN 0
    ELSE LET x == CHOOSE y \in cells : TRUE
         IN csv.rows[x[1]][x[2]] + SumCells(csv, cells \ {x})

\* The sum of a wide source's cells for one country and one day.
SourceSum(csv, country, day) ==
    SumCells(csv, {x \in (DOMAIN csv.rows) \X (Range(csv.cols) \ Range(IdVars)) :
                     /\ csv.rows[x[1]]["Country/Region"] = country
                     /\ ParseDate(x[2]) = day})

\* A callback call with a country and a metric selected has been answered
\* or has raised.
Queried == response.status # "none" /\ response.country # "" /\ response.metric # ""

\* The snapshot value the returned map shows for the queried country.
SnapshotValues ==
    {response.z[i] : i \in {j \in DOMAIN response.locations :
                               response.locations[j] = response.country}}

\* C1: for confirmed and deaths, the value served for a country and a date is
\* the sum of the source rows' values for that country and date.
C1_ValueIsSumOfRows ==
    (Queried /\ response.status = "ok"
       /\ response.metric \in {"Confirmed Cases", "Deaths"}) =>
    \A k \in DOMAIN response.series :
       response.series[k][2] =
          SourceSum(SourceOf(response.metric).csv, response.country,
                    response.series[k][1])

\* C2: after the merge every snapshot row holds a number for each of the
\* three metrics, and 0 for a metric whose source has no row of the country.
C2_NoNullAfterMerge ==
    \A i \in DOMAIN country_data.rows : \A m \in RecognizedMetrics :
       /\ country_data.rows[i][m] # NaN
       /\ SourceRows(m, country_data.rows[i]["Country"]) = {}
             => country_data.rows[i][m] = 0

C4_UnknownMetricFails ==
    (Queried /\ response.metric \notin RecognizedMetrics) =>
       response.status # "ok" /\ ~response.has_map

\* C5: the snapshot value of a country of the universe is at least every
\* (present) value of the history series served for it.
C5_SnapshotAtLeastHistory ==
    (Queried /\ response.status = "ok" /\ response.metric \in RecognizedMetrics
       /\ response.country \in Universe) =>
    \A k \in DOMAIN response.series :
       response.series[k][2] # NaN =>
          /\ SnapshotValues # {}
          /\ \A v \in SnapshotValues : v # NaN /\ v >= response.series[k][2]

\* C5 witness: a served series holds two different values and the snapshot
\* equals the larger.
C5_Witness ==
    /\ Queried /\ response.status = "ok" /\ response.country \in Universe
    /\ response.metric \in RecognizedMetrics
    /\ \E j, k \in DOMAIN response.series :
          /\ response.series[j][2] = 5 /\ response.series[k][2] = 7
    /\ SnapshotValues = {7}

\* C6: a served series never holds two entries with the same date.
C6_OneRecordPerDate ==
    (Queried /\ response.status = "ok") =>
    \A j, k \in DOMAIN response.series :
       j # k => response.series[j][1] # response.series[k][1]

AfterMerge == pc \in {"app", "run_server", "serving"} \/ (pc = "failed" /\ error = 51)

\* C7: the snapshot table holds exactly the countries of the confirmed source,
\* one row each.
C7_UniverseIsConfirmed ==
    AfterMerge =>
       /\ {country_data.rows[i]["Country"] : i \in DOMAIN country_data.rows} = Universe
       /\ \A i, j \in DOMAIN country_data.rows :
             i # j => country_data.rows[i]["Country"] # country_data.rows[j]["Country"]

\* C7 witness: merged, with a country that only the deaths or the vaccination
\* source holds, and a confirmed country that the deaths source lacks.
C7_Witness ==
    /\ AfterMerge
    /\ \E c \in QueryCountries :
          /\ c \notin Universe
          /\ SourceRows("Deaths", c) # {} \/ SourceRows("total_vaccinations", c) # {}
    /\ \E c \in Universe : SourceRows("Deaths", c) = {}

\* The three tables are in their final form and the merge has run.
StoreComplete ==
    /\ confirmed_data.cols = IdVars \o <<"Date", "Confirmed Cases">>
    /\ Len(confirmed_data.rows) = 2 * Len(csv_confirmed.rows)
    /\ deaths_data.cols = IdVars \o <<"Date", "Deaths">>
    /\ Len(deaths_data.rows) = 2 * Len(csv_deaths.rows)
    /\ vaccination_data.cols = <<"Country", "Date", "total_vaccinations">>
    /\ country_data.cols = <<"Country", "Confirmed Cases", "Deaths", "total_vaccinations">>
    /\ \A i \in DOMAIN confirmed_data.rows : confirmed_data.rows[i]["Date"] \in {1, 2}
    /\ \A i \in DOMAIN deaths_data.rows : deaths_data.rows[i]["Date"] \in {1, 2}

\* C8: a query is answered only by the running server over the complete
\* store, and a run that failed answers none.
C8_ServedOnlyWhenComplete ==
    /\ response.status # "none" => (pc = "serving" /\ error = 0 /\ StoreComplete)
    /\ pc = "failed" => response.status = "none"

\* C8 witness: a query has been answered with a snapshot.
C8_Witness == response.status = "ok" /\ response.has_map /\ Universe # {}

\* C9: a served series is in ascending date order.
C9_AscendingDates ==
    (Queried /\ response.status = "ok") =>
    \A j, k \in DOMAIN response.series :
       (j < k /\ response.series[j][1] # NaT /\ response.series[k][1] # NaT)
          => response.series[j][1] <= response.series[k][1]

\* C10 (as stated): no record of the vaccination history has an absent date.
C10_BadDateRowsDropped ==
    HasCol(vaccination_data, "Date") =>
       \A i \in DOMAIN vaccination_data.rows : vaccination_data.rows[i]["Date"] # NaT

\* C10 (amended): the vaccination load never fails on a date; every source
\* row is kept, a row whose date does not parse with the date NaT; such a row
\* is part of its country's served series and counts in its snapshot value.
C10_BadDateRowsKept ==
    /\ error # 32
    /\ HasCol(vaccination_data, "Date") =>
          /\ Len(vaccination_data.rows) = Len(csv_vaccinations.rows)
          /\ \A i \in DOMAIN vaccination_data.rows :
                /\ vaccination_data.rows[i]["Country"] = csv_vaccinations.rows[i].location
                /\ vaccination_data.rows[i]["total_vaccinations"]
                      = csv_vaccinations.rows[i].total_vaccinations
                /\ vaccination_data.rows[i]["Date"] = ParseDate(csv_vaccinations.rows[i].date)
    /\ (Queried /\ response.status = "ok" /\ response.metric = "total_vaccinations") =>
          /\ Len(response.series)
               = Cardinality(SourceRows("total_vaccinations", response.country))
          /\ \A i \in SourceRows("total_vaccinations", response.country) :
                \A v \in SnapshotValues :
                   v >= csv_vaccinations.rows[i].total_vaccinations

\* C10 witness: every vaccination row of a country of the universe has a date
\* that does not parse; the served series holds it with NaT and the snapshot
\* value is its value.
C10_Witness ==
    /\ Queried /\ response.status = "ok" /\ response.metric = "total_vaccinations"
    /\ response.country \in Universe
    /\ response.series = << <<NaT, 7>> >>
    /\ SnapshotValues = {7}

=============================================================================
